---- MODULE Spec2Model ----
(***************************************************************************)
(* Conveyor digital twin: DigitalTwin (digital_twin/twin_core.py),         *)
(* AnalyticsEngine (digital_twin/analytics.py), ConveyorSimulator          *)
(* (iot/simulation.py) and the cycle of ConveyorDigitalTwin (main.py).     *)
(*                                                                         *)
(* Numbers.  The program computes with Python floats; the model computes   *)
(* with exact fixed-point integers:                                        *)
(*   - speeds, temperatures, vibration, current, efficiency, severities,   *)
(*     load factors: thousandths (80.0 degrees = 80000, 100 % = 100000);    *)
(*   - uptime_hours: units of 1e-7 hour (0.0002778 h = 2778);              *)
(*   - items_processed, defects_count: plain integers.                     *)
(* Python dicts are functions whose DOMAIN is the dict's key set, so that  *)
(* a lookup of a key the dict does not hold is visible (KeyError).         *)
(***************************************************************************)
EXTENDS Integers, Sequences, FiniteSets, TLC

VARIABLES
    config,                  \* DigitalTwin.config / ConveyorSimulator.config
    sensor_data,             \* DigitalTwin.sensor_data
    operational_parameters,  \* DigitalTwin.operational_parameters
    alerts,                  \* DigitalTwin.alerts
    operating_mode,          \* DigitalTwin.operating_mode
    simulation_history,      \* ConveyorSimulator.simulation_history
    now,                     \* the clock read by datetime.now()
    call,                    \* the last operation called and how it ended
    update_pc,               \* where an update_state run step by step stands
    reader,                  \* a calculate_oee run step by step by a reader
    cycle_log,               \* the calls of the last _main_loop cycle, in order
    services                 \* DatabaseManager.connection, MQTTClient.connected

vars == <<config, sensor_data, operational_parameters, alerts, operating_mode,
          simulation_history, now, call, update_pc, reader, cycle_log,
          services>>

(* What a call on the twin, the analytics or the simulator made as a whole  *)
(* leaves alone                                                             *)
aside == <<update_pc, reader, cycle_log, services>>

twin == <<operational_parameters, alerts>>

----------------------------------------------------------------------------
(* Bounds of the model *)

MaxCycles == 2        \* update_state calls in one behaviour
MaxHistory == 1       \* simulation results kept in one behaviour

Max(a, b) == IF a >= b THEN a ELSE b
Min(a, b) == IF a <= b THEN a ELSE b

(* dict.get(key, default) *)
Get(d, k, default) == IF k \in DOMAIN d THEN d[k] ELSE default

(* k in d *)
HasKey(d, k) == k \in DOMAIN d

----------------------------------------------------------------------------
(* config/modbus_config.py: SENSOR_THRESHOLDS *)

SENSOR_THRESHOLDS ==
    [temperature_warning  |-> 80000,
     temperature_critical |-> 90000,
     vibration_warning    |-> 5000,
     vibration_critical   |-> 7000,
     current_warning      |-> 15000]

(* config.yaml as load_config() returns it.  The file is not part of the    *)
(* sources; the three shapes are: no conveyor section (as when the file is *)
(* missing and load_config returns {}), a conveyor section that lacks       *)
(* maintenance_interval, and the complete section.  max_speed = 3.0;       *)
(* maintenance_interval is a small number of hours (in 1e-7 h) so that the *)
(* bounded uptime can exceed it.  Init takes the complete configuration.   *)
ConfigNoConveyor == [modbus |-> "section"]
ConfigNoInterval == [modbus |-> "section", conveyor |-> [max_speed |-> 3000]]
ConfigFull ==
    [modbus |-> "section",
     conveyor |-> [max_speed |-> 3000, maintenance_interval |-> 4000]]
Configs == {ConfigNoConveyor, ConfigNoInterval, ConfigFull}

----------------------------------------------------------------------------
(* The record of the last call *)

NoCall == [op |-> "none", status |-> "returned"]

Returned(op, args, result) ==
    [op |-> op, args |-> args, status |-> "returned", result |-> result]

Raised(op, args, error) ==
    [op |-> op, args |-> args, status |-> "raised", error |-> error]

----------------------------------------------------------------------------
(* DigitalTwin *)

InitialParameters ==
    [current_speed     |-> 0,
     motor_temperature |-> 0,
     vibration_level   |-> 0,
     motor_current     |-> 0,
     efficiency        |-> 100000,
     uptime_hours      |-> 0,
     items_processed   |-> 0,
     defects_count     |-> 0]

(* _calculate_efficiency: 100 minus the three penalties, at least 60 *)
TempPenalty(params) ==
    IF params.motor_temperature > SENSOR_THRESHOLDS.temperature_warning
    THEN ((params.motor_temperature - SENSOR_THRESHOLDS.temperature_warning) * 5) \div 10
    ELSE 0

VibrationPenalty(params) ==
    IF params.vibration_level > SENSOR_THRESHOLDS.vibration_warning
    THEN (params.vibration_level - SENSOR_THRESHOLDS.vibration_warning) * 2
    ELSE 0

CurrentPenalty(params) ==
    IF params.motor_current > SENSOR_THRESHOLDS.current_warning
    THEN ((params.motor_current - SENSOR_THRESHOLDS.current_warning) * 15) \div 10
    ELSE 0

(* a bug CalculateEfficiency could have: the floor of 60 left out *)
CalculateEfficiency_NoClamp(params) ==
    100000 - TempPenalty(params) - VibrationPenalty(params) - CurrentPenalty(params)

CalculateEfficiency(params) ==
    Max(60000, 100000 - TempPenalty(params) - VibrationPenalty(params)
                      - CurrentPenalty(params))

(* f"{x:.1f}" and f"{x:.2f}" of a value in thousandths: the value rounded   *)
(* to tenths / hundredths (half to even), in tenths / hundredths.           *)
RoundDiv(x, d) ==
    LET q == x \div d
        r == x % d
    IN  IF 2 * r > d \/ (2 * r = d /\ q % 2 = 1) THEN q + 1 ELSE q

Format1f(x) == RoundDiv(x, 100)
Format2f(x) == RoundDiv(x, 10)

(* _check_anomalies: the three checks, each giving one alert or none *)
TemperatureAlert(params, timestamp) ==
    IF params.motor_temperature > SENSOR_THRESHOLDS.temperature_critical
    THEN << [type |-> "CRITICAL_TEMPERATURE",
             message |-> <<"temperature", Format1f(params.motor_temperature)>>,
             severity |-> "HIGH",
             timestamp |-> timestamp] >>
    ELSE << >>

VibrationAlert(params, timestamp) ==
    IF params.vibration_level > SENSOR_THRESHOLDS.vibration_critical
    THEN << [type |-> "HIGH_VIBRATION",
             message |-> <<"vibration", Format2f(params.vibration_level)>>,
             severity |-> "HIGH",
             timestamp |-> timestamp] >>
    ELSE << >>

(* a bug EfficiencyAlert could have: the bound 75 itself counts as low *)
EfficiencyAlert_Inclusive(params, timestamp) ==
    IF params.efficiency <= 75000
    THEN << [type |-> "LOW_EFFICIENCY",
             message |-> <<"efficiency", Format1f(params.efficiency)>>,
             severity |-> "MEDIUM",
             timestamp |-> timestamp] >>
    ELSE << >>

EfficiencyAlert(params, timestamp) ==
    IF params.efficiency < 75000
    THEN << [type |-> "LOW_EFFICIENCY",
             message |-> <<"efficiency", Format1f(params.efficiency)>>,
             severity |-> "MEDIUM",
             timestamp |-> timestamp] >>
    ELSE << >>

(* _check_anomalies: the new alert list, built from params alone *)
CheckAnomalies_Repeated(params, timestamp) ==
    LET found == TemperatureAlert(params, timestamp)
                     \o VibrationAlert(params, timestamp)
                     \o EfficiencyAlert(params, timestamp)
    IN  found \o found

CheckAnomalies(params, timestamp) ==
    TemperatureAlert(params, timestamp)
        \o VibrationAlert(params, timestamp)
        \o EfficiencyAlert(params, timestamp)

(* _update_statistics *)
UptimeIncrement == 2778

(* _update_statistics that stores the items of this cycle instead of       *)
(* adding them                                                              *)
UpdateStatistics_Overwrite(params) ==
    [params EXCEPT
        !.uptime_hours = @ + UptimeIncrement,
        !.items_processed = params.current_speed \div 10000]

UpdateStatistics_CountDefects(params) ==
    [params EXCEPT
        !.uptime_hours = @ + UptimeIncrement,
        !.items_processed = @ + (params.current_speed \div 10000),
        !.defects_count = @ + (IF params.vibration_level > 7000 THEN 1 ELSE 0)]

UpdateStatistics(params) ==
    [params EXCEPT
        !.uptime_hours = @ + UptimeIncrement,
        !.items_processed = @ + (params.current_speed \div 10000)]

(* update_state that keeps the previous value of a missing reading *)
MergeSnapshot_KeepPrevious(params, snapshot) ==
    [params EXCEPT
        !.current_speed     = Get(snapshot, "conveyor_speed", @),
        !.motor_temperature = Get(snapshot, "motor_temperature", @),
        !.vibration_level   = Get(snapshot, "vibration_level", @),
        !.motor_current     = Get(snapshot, "motor_current", @)]

(* update_state, lines 30-35: the four readings, 0 for a missing one *)
MergeSnapshot(params, snapshot) ==
    [params EXCEPT
        !.current_speed     = Get(snapshot, "conveyor_speed", 0),
        !.motor_temperature = Get(snapshot, "motor_temperature", 0),
        !.vibration_level   = Get(snapshot, "vibration_level", 0),
        !.motor_current     = Get(snapshot, "motor_current", 0)]

----------------------------------------------------------------------------
(* Sensor snapshots.  A snapshot always carries a timestamp                 *)
(* (hardware/sensors.py:20-23) and any subset of the four readings.         *)

(* The snapshots of Spec: nominal (the spec's example baseline), everything *)
(* overloaded, a critical temperature with vibration and current missing,   *)
(* and a snapshot with no reading at all.                                   *)
Snapshots ==
    { [timestamp |-> 0, conveyor_speed |-> 1000, motor_temperature |-> 40000,
       vibration_level |-> 2000, motor_current |-> 10000],
      [timestamp |-> 0, conveyor_speed |-> 20000, motor_temperature |-> 130000,
       vibration_level |-> 8000, motor_current |-> 20000],
      [timestamp |-> 0, conveyor_speed |-> 1000, motor_temperature |-> 95000],
      [timestamp |-> 0] }

(* The snapshots of SpecTwin: every subset of the readings, every value     *)
SpeedValues == {0, 1000, 20000}
TemperatureValues == {40000, 85000, 90000, 90100, 130000, 170000}
VibrationValues == {2000, 5000, 7000, 7010, 12000}
CurrentValues == {10000, 20000, 30000}

Restrict(f, S) == [k \in S |-> f[k]]

SnapshotGrid ==
    { Restrict(f, P \cup {"timestamp"}) :
        f \in [timestamp : {0}, conveyor_speed : SpeedValues,
               motor_temperature : TemperatureValues,
               vibration_level : VibrationValues,
               motor_current : CurrentValues],
        P \in SUBSET {"conveyor_speed", "motor_temperature",
                      "vibration_level", "motor_current"} }

----------------------------------------------------------------------------
(* The state after DigitalTwin(), AnalyticsEngine(twin), ConveyorSimulator(twin) *)

(* No calculate_oee is in flight: nothing read yet *)
IdleReader ==
    [pc |-> "idle", availability |-> [num |-> 0, den |-> 1],
     performance |-> [num |-> 0, den |-> 1], cycles |-> << >>]

InitOf(cfg, connection) ==
    /\ config = cfg
    /\ sensor_data = [timestamp |-> 0]
    /\ operational_parameters = InitialParameters
    /\ alerts = << >>
    /\ operating_mode = "NORMAL"
    /\ simulation_history = << >>
    /\ now = 0
    /\ call = NoCall
    /\ update_pc = "idle"
    /\ reader = IdleReader
    /\ cycle_log = << >>
    /\ services = [connection |-> connection, connected |-> FALSE]

(* DatabaseManager.connect() succeeded *)
InitWith(cfg) == InitOf(cfg, "open")

Init == InitWith(ConfigFull)

(* DigitalTwin.update_state(sensor_data).  One cycle of the clock passes    *)
(* before each update; the snapshot and the alerts are stamped with it.     *)
UpdatedParameters(params, snapshot) ==
    LET merged == MergeSnapshot(params, snapshot)
        scored == [merged EXCEPT !.efficiency = CalculateEfficiency(merged)]
    IN  UpdateStatistics(scored)

(* a bug UpdatedAlerts could have: the new alerts added to the old ones *)
UpdatedAlerts_Accumulate(params, old_alerts, snapshot, timestamp) ==
    LET merged == MergeSnapshot(params, snapshot)
        scored == [merged EXCEPT !.efficiency = CalculateEfficiency(merged)]
    IN  old_alerts \o CheckAnomalies(scored, timestamp)

(* update_state, line 41: self.alerts after the update *)
UpdatedAlerts(params, old_alerts, snapshot, timestamp) ==
    LET merged == MergeSnapshot(params, snapshot)
        scored == [merged EXCEPT !.efficiency = CalculateEfficiency(merged)]
    IN  CheckAnomalies(scored, timestamp)

(* update_state that switches to EMERGENCY when an alert of severity HIGH   *)
(* is raised                                                                *)
UpdateState_EmergencyOnHigh(snapshot) ==
    /\ now < MaxCycles
    /\ now' = now + 1
    /\ LET stamped == [snapshot EXCEPT !.timestamp = now']
       IN  /\ sensor_data' = stamped
           /\ operational_parameters' =
                  UpdatedParameters(operational_parameters, stamped)
           /\ alerts' = UpdatedAlerts(operational_parameters, alerts, stamped, now')
           /\ call' = Returned("update_state", stamped, "None")
    /\ operating_mode' =
           IF \E i \in 1..Len(alerts') : alerts'[i].severity = "HIGH"
           THEN "EMERGENCY" ELSE operating_mode
    /\ UNCHANGED aside
    /\ UNCHANGED <<config, simulation_history>>

UpdateState(snapshot) ==
    /\ now < MaxCycles
    /\ now' = now + 1
    /\ LET stamped == [snapshot EXCEPT !.timestamp = now']
       IN  /\ sensor_data' = stamped
           /\ operational_parameters' =
                  UpdatedParameters(operational_parameters, stamped)
           /\ alerts' = UpdatedAlerts(operational_parameters, alerts, stamped, now')
           /\ call' = Returned("update_state", stamped, "None")
    /\ UNCHANGED aside
    /\ UNCHANGED <<config, operating_mode, simulation_history>>

(* DigitalTwin.predict_maintenance: the value returned, or the error raised *)
Value(v) == [raised |-> FALSE, value |-> v]
Error(e) == [raised |-> TRUE, error |-> e]

(* predict_maintenance that looks at the maintenance interval first *)
PredictMaintenance_IntervalFirst(params, cfg) ==
    IF ~HasKey(cfg, "conveyor") THEN Error("KeyError")
    ELSE IF ~HasKey(cfg.conveyor, "maintenance_interval") THEN Error("KeyError")
    ELSE IF params.uptime_hours > cfg.conveyor.maintenance_interval
    THEN Value([maintenance_needed |-> TRUE,
                predicted_failure |-> "scheduled maintenance",
                recommended_actions |-> <<"full maintenance">>,
                urgency |-> "MEDIUM"])
    ELSE IF /\ params.vibration_level > 6000
            /\ params.motor_temperature > 85000
            /\ params.efficiency < 80000
    THEN Value([maintenance_needed |-> TRUE,
                predicted_failure |-> "motor bearing",
                recommended_actions |-> <<"check balancing", "replace bearings">>,
                urgency |-> "HIGH"])
    ELSE Value([maintenance_needed |-> FALSE,
                predicted_failure |-> "None",
                recommended_actions |-> << >>,
                urgency |-> "LOW"])

PredictMaintenance(params, cfg) ==
    IF /\ params.vibration_level > 6000
       /\ params.motor_temperature > 85000
       /\ params.efficiency < 80000
    THEN Value([maintenance_needed |-> TRUE,
                predicted_failure |-> "motor bearing",
                recommended_actions |-> <<"check balancing", "replace bearings">>,
                urgency |-> "HIGH"])
    ELSE IF ~HasKey(cfg, "conveyor") THEN Error("KeyError")
    ELSE IF ~HasKey(cfg.conveyor, "maintenance_interval") THEN Error("KeyError")
    ELSE IF params.uptime_hours > cfg.conveyor.maintenance_interval
    THEN Value([maintenance_needed |-> TRUE,
                predicted_failure |-> "scheduled maintenance",
                recommended_actions |-> <<"full maintenance">>,
                urgency |-> "MEDIUM"])
    ELSE Value([maintenance_needed |-> FALSE,
                predicted_failure |-> "None",
                recommended_actions |-> << >>,
                urgency |-> "LOW"])

CallOutcome(op, args, outcome) ==
    IF outcome.raised THEN Raised(op, args, outcome.error)
    ELSE Returned(op, args, outcome.value)

PredictMaintenanceCall ==
    /\ call' = CallOutcome("predict_maintenance", << >>,
                           PredictMaintenance(operational_parameters, config))
    /\ UNCHANGED aside
    /\ UNCHANGED <<config, sensor_data, operational_parameters, alerts,
                   operating_mode, simulation_history, now>>

----------------------------------------------------------------------------
(* AnalyticsEngine.  Ratios are kept exact, as numerator and denominator.   *)

Ratio(n, d) == [num |-> n, den |-> d]

(* _calculate_availability *)
CalculateAvailability(alert_list) ==
    LET planned_production_time == 24 * 60
        downtime == Len(alert_list) * 5
    IN  Ratio(Max(0, planned_production_time - downtime), planned_production_time)

(* _calculate_performance: 1.0 / max(0.1, 1.0 / current_speed).  The inner  *)
(* division is done first: it raises ZeroDivisionError at speed 0; it is    *)
(* at least 0.1 exactly when 0 < speed <= 10, and negative below 0.         *)
CalculatePerformance(params) ==
    LET speed == params.current_speed
    IN  IF speed = 0 THEN Error("ZeroDivisionError")
        ELSE IF speed > 0 /\ speed <= 10000 THEN Value(Ratio(speed, 1000))
        ELSE Value(Ratio(10, 1))

(* _calculate_quality returning the share of defects instead of the share   *)
(* of good items                                                            *)
CalculateQuality_DefectShare(params) ==
    LET total_items == params.items_processed
        defects == params.defects_count
    IN  IF total_items = 0 THEN Ratio(1, 1)
        ELSE Ratio(defects, total_items)

(* _calculate_quality *)
CalculateQuality(params) ==
    LET total_items == params.items_processed
        defects == params.defects_count
    IN  IF total_items = 0 THEN Ratio(1, 1)
        ELSE Ratio(total_items - defects, total_items)

(* calculate_oee: the four percentages *)
Percent(r) ==
    IF r.den % 100 = 0 THEN Ratio(r.num, r.den \div 100)
    ELSE Ratio(r.num * 100, r.den)

CalculateOEE(params, alert_list) ==
    LET availability == CalculateAvailability(alert_list)
        performance == CalculatePerformance(params)
        quality == CalculateQuality(params)
    IN  IF performance.raised THEN performance
        ELSE Value(
            [oee |-> Percent(Ratio(
                        availability.num * performance.value.num * quality.num,
                        availability.den * performance.value.den * quality.den)),
             availability |-> Percent(availability),
             performance |-> Percent(performance.value),
             quality |-> Percent(quality)])

CalculateOEECall ==
    /\ call' = CallOutcome("calculate_oee", << >>,
                           CalculateOEE(operational_parameters, alerts))
    /\ UNCHANGED aside
    /\ UNCHANGED <<config, sensor_data, operational_parameters, alerts,
                   operating_mode, simulation_history, now>>

(* trend_analysis(data_points, window), for window >= 2.  The slope of the  *)
(* least-squares line through (0, y0) .. (n-1, y(n-1)) is                   *)
(* (n*Sxy - Sx*Sy) / (n*Sxx - Sx*Sx); the points are in thousandths, so the *)
(* slope exceeds 0.1 exactly when the numerator exceeds 100 denominators.   *)
RECURSIVE SumY(_)
SumY(ys) == IF ys = << >> THEN 0 ELSE Head(ys) + SumY(Tail(ys))

RECURSIVE SumXY(_, _)
SumXY(ys, x) == IF ys = << >> THEN 0 ELSE x * Head(ys) + SumXY(Tail(ys), x + 1)

RECURSIVE SumX(_)
SumX(n) == IF n = 0 THEN 0 ELSE (n - 1) + SumX(n - 1)

RECURSIVE SumXX(_)
SumXX(n) == IF n = 0 THEN 0 ELSE (n - 1) * (n - 1) + SumXX(n - 1)

(* data_points[-window:]: the last n elements, all of them when n is 0 or  *)
(* more than the length                                                     *)
LastN(seq, n) ==
    IF n = 0 THEN seq ELSE SubSeq(seq, Max(1, Len(seq) - n + 1), Len(seq))

SlopeNum(ys) == Len(ys) * SumXY(ys, 0) - SumX(Len(ys)) * SumY(ys)
SlopeDen(ys) == Len(ys) * SumXX(Len(ys)) - SumX(Len(ys)) * SumX(Len(ys))

(* trend_analysis that fits a line as soon as window - 1 points exist *)
TrendAnalysis_OnePointShort(data_points, window) ==
    IF Len(data_points) < window - 1 THEN "INSUFFICIENT_DATA"
    ELSE LET recent_data == LastN(data_points, window)
         IN  IF SlopeNum(recent_data) > 100 * SlopeDen(recent_data)
             THEN "INCREASING"
             ELSE IF SlopeNum(recent_data) < (-100) * SlopeDen(recent_data)
             THEN "DECREASING"
             ELSE "STABLE"

(* trend_analysis that calls a trend only beyond a slope of 0.3 *)
TrendAnalysis_SteepOnly(data_points, window) ==
    IF Len(data_points) < window THEN "INSUFFICIENT_DATA"
    ELSE LET recent_data == LastN(data_points, window)
         IN  IF SlopeNum(recent_data) > 300 * SlopeDen(recent_data)
             THEN "INCREASING"
             ELSE IF SlopeNum(recent_data) < (-300) * SlopeDen(recent_data)
             THEN "DECREASING"
             ELSE "STABLE"

TrendAnalysis(data_points, window) ==
    IF Len(data_points) < window THEN "INSUFFICIENT_DATA"
    ELSE LET recent_data == LastN(data_points, window)
         IN  IF SlopeNum(recent_data) > 100 * SlopeDen(recent_data)
             THEN "INCREASING"
             ELSE IF SlopeNum(recent_data) < (-100) * SlopeDen(recent_data)
             THEN "DECREASING"
             ELSE "STABLE"

(* The series and windows trend_analysis is called with *)
TrendSeries ==
    { <<0>>, <<0, 150>>, <<0, 100, 200>>, <<300, 150, 0>>, <<150, 0, 300>> }
TrendWindows == {2, 3}

TrendAnalysisOver(series, windows) ==
    \E data_points \in series, window \in windows :
        /\ call' = Returned("trend_analysis", <<data_points, window>>,
                            TrendAnalysis(data_points, window))
        /\ UNCHANGED aside
        /\ UNCHANGED <<config, sensor_data, operational_parameters, alerts,
                       operating_mode, simulation_history, now>>

TrendAnalysisCall == TrendAnalysisOver(TrendSeries, TrendWindows)

(* _generate_recommendations *)
GenerateRecommendations(params, alert_list) ==
    (IF params.efficiency < 85000 THEN <<"check motor settings and balancing">>
     ELSE << >>)
    \o (IF params.motor_temperature > 80000 THEN <<"improve motor cooling">>
        ELSE << >>)
    \o (IF Len(alert_list) > 5 THEN <<"system diagnostics required">> ELSE << >>)

(* generate_report.  The report holds the twin's operational_parameters     *)
(* dict itself (line 74), not a copy of it: the model keeps the reference.  *)
TwinParametersRef == "digital_twin.operational_parameters"

GenerateReport(params, alert_list, cfg, period_hours, timestamp) ==
    LET oee_metrics == CalculateOEE(params, alert_list)
        prediction == PredictMaintenance(params, cfg)
    IN  IF oee_metrics.raised THEN oee_metrics
        ELSE IF prediction.raised THEN prediction
        ELSE Value([period |-> period_hours,
                    timestamp |-> timestamp,
                    oee_metrics |-> oee_metrics.value,
                    operational_parameters |-> TwinParametersRef,
                    alerts_count |-> Len(alert_list),
                    maintenance_prediction |-> prediction.value,
                    recommendations |->
                        GenerateRecommendations(params, alert_list)])

ReportPeriods == {24}

GenerateReportCall ==
    \E period_hours \in ReportPeriods :
        /\ call' = CallOutcome("generate_report", <<period_hours>>,
                       GenerateReport(operational_parameters, alerts, config,
                                      period_hours, now))
        /\ UNCHANGED aside
        /\ UNCHANGED <<config, sensor_data, operational_parameters, alerts,
                       operating_mode, simulation_history, now>>

----------------------------------------------------------------------------
(* ConveyorSimulator *)

(* x * factor, both in thousandths, without leaving 32 bits *)
Scaled(x, factor) ==
    (x \div 1000) * factor + ((x % 1000) * factor) \div 1000

SimulationResult(scenario_name, timestamp, parameters, warnings, recommendations, success) ==
    [scenario_name |-> scenario_name,
     timestamp |-> timestamp,
     parameters |-> parameters,
     warnings |-> warnings,
     recommendations |-> recommendations,
     success |-> success,
     duration_seconds |-> 0]

(* speed_ratio ** 0.8 and speed_ratio ** 1.2, in thousandths, rounded, for  *)
(* the speed ratios the target speeds and the snapshots' speeds give        *)
SpeedRatioPowers ==
    (100 :> [p08 |-> 158, p12 |-> 63]) @@
    (200 :> [p08 |-> 276, p12 |-> 145]) @@
    (2000 :> [p08 |-> 1741, p12 |-> 2297]) @@
    (4000 :> [p08 |-> 3031, p12 |-> 5278]) @@
    (20000 :> [p08 |-> 10986, p12 |-> 36411]) @@
    (40000 :> [p08 |-> 19127, p12 |-> 83651])

(* _predict_parameters_for_speed *)
PredictParametersForSpeed(params, target_speed) ==
    LET current_speed == params.current_speed
        speed_ratio == (target_speed * 1000) \div Max(current_speed, 100)
    IN  [conveyor_speed |-> target_speed,
         motor_temperature |->
             Scaled(params.motor_temperature, SpeedRatioPowers[speed_ratio].p08),
         vibration_level |->
             Scaled(params.vibration_level, SpeedRatioPowers[speed_ratio].p12),
         motor_current |-> Scaled(params.motor_current, speed_ratio),
         efficiency |-> params.efficiency]

(* _calculate_efficiency_impact(current, predicted): both dicts are read    *)
(* under the key 'conveyor_speed' (line 378)                                *)
CalculateEfficiencyImpact(current, predicted) ==
    IF ~HasKey(predicted, "conveyor_speed") \/ ~HasKey(current, "conveyor_speed")
    THEN Error("KeyError")
    ELSE LET temp_impact ==
                 -((Max(0, predicted.motor_temperature - current.motor_temperature) * 5) \div 10)
             vibration_impact ==
                 -(Max(0, predicted.vibration_level - current.vibration_level) * 2)
             speed_impact ==
                 (predicted["conveyor_speed"] - current["conveyor_speed"]) \div 10
         IN  Value(temp_impact + vibration_impact + speed_impact)

(* simulate_speed_increase *)
SimulateSpeedIncrease(params, cfg, target_speed, duration_minutes, timestamp) ==
    LET current_params == params
        predicted_params == PredictParametersForSpeed(params, target_speed)
    IN  IF ~HasKey(cfg, "conveyor") THEN Error("KeyError")
        ELSE IF ~HasKey(cfg.conveyor, "max_speed") THEN Error("KeyError")
        ELSE
        LET max_speed == cfg.conveyor.max_speed
            too_fast == target_speed > max_speed
            temp_critical == predicted_params.motor_temperature
                                 > SENSOR_THRESHOLDS.temperature_critical
            temp_warning == predicted_params.motor_temperature
                                 > SENSOR_THRESHOLDS.temperature_warning
            vibration_critical == predicted_params.vibration_level
                                 > SENSOR_THRESHOLDS.vibration_critical
            warnings ==
                (IF too_fast
                 THEN << <<"target speed exceeds maximum", target_speed, max_speed>> >>
                 ELSE << >>)
                \o (IF temp_critical
                    THEN << <<"predicted temperature (critical)",
                              Format1f(predicted_params.motor_temperature)>> >>
                    ELSE IF temp_warning
                    THEN << <<"predicted temperature (high)",
                              Format1f(predicted_params.motor_temperature)>> >>
                    ELSE << >>)
                \o (IF vibration_critical
                    THEN << <<"predicted vibration (critical)",
                              Format2f(predicted_params.vibration_level)>> >>
                    ELSE << >>)
            success == ~too_fast /\ ~temp_critical /\ ~vibration_critical
            efficiency_impact ==
                CalculateEfficiencyImpact(current_params, predicted_params)
        IN  IF efficiency_impact.raised THEN efficiency_impact
            ELSE
            LET efficiency ==
                    Max(60000, current_params.efficiency + efficiency_impact.value)
                recommendations ==
                    (IF temp_critical THEN << <<"increase motor cooling first">> >>
                     ELSE << >>)
                    \o (IF vibration_critical
                        THEN << <<"balance the equipment first">> >> ELSE << >>)
                    \o (IF success
                        THEN << <<"speed can be increased to", target_speed>>,
                                <<"predicted efficiency", Format1f(efficiency)>> >>
                        ELSE << >>)
            IN  Value(SimulationResult("speed_increase", timestamp,
                        [predicted_params EXCEPT !.efficiency = efficiency],
                        warnings, recommendations, success))

(* simulate_component_failure *)
SimulateComponentFailure(params, component, severity, timestamp) ==
    LET simulated_params == params
        name == "failure_" \o component
        Result(p, warnings, recommendations) ==
            Value(SimulationResult(name, timestamp,
                    [p EXCEPT !.efficiency = Max(0, @),
                              !.vibration_level = Max(0, @)],
                    warnings, recommendations, FALSE))
    IN  CASE component = "motor" ->
                Result([simulated_params EXCEPT
                            !.motor_temperature = @ + 20 * severity,
                            !.motor_current = @ + 5 * severity,
                            !.efficiency = @ - 25 * severity],
                       << <<"motor failure simulated", severity>> >>,
                       << <<"stop the conveyor at once">>,
                          <<"call the service engineer">> >>)
          [] component = "bearing" ->
                Result([simulated_params EXCEPT
                            !.vibration_level = @ + 3 * severity,
                            !.motor_temperature = @ + 10 * severity,
                            !.efficiency = @ - 15 * severity],
                       << <<"bearing failure simulated", severity>> >>,
                       << <<"maintenance within 24 hours">> >>)
          [] component = "sensor" ->
                Result([simulated_params EXCEPT !.efficiency = @ - 10 * severity],
                       << <<"sensor failure simulated", severity>> >>,
                       << <<"calibrate the sensors">> >>)
          [] component = "controller" ->
                IF ~HasKey(simulated_params, "conveyor_speed")
                THEN Error("KeyError")
                ELSE Result([k \in DOMAIN simulated_params |->
                               IF k = "conveyor_speed"
                               THEN Scaled(simulated_params[k],
                                           1000 - (3 * severity) \div 10)
                               ELSE IF k = "efficiency"
                               THEN simulated_params[k] - 20 * severity
                               ELSE simulated_params[k]],
                            << <<"controller failure simulated", severity>> >>,
                            << <<"restart the control system">> >>)
          [] OTHER -> Result(simulated_params, << >>, << >>)

(* _simulate_long_term_effects: degradation_rate = 0.01 per hour.  The      *)
(* products are cut to whole thousandths (rounded down).  First a variant   *)
(* that stops the efficiency at 0.                                          *)
SimulateLongTermEffects_Clamped(params, duration_hours) ==
    [efficiency |->
         Max(0, (Get(params, "efficiency", 100000) * (100 - duration_hours)) \div 100),
     vibration_level |->
         Scaled(Get(params, "vibration_level", 0), 1000 + 5 * duration_hours),
     motor_temperature |->
         Scaled(Get(params, "motor_temperature", 0), 1000 + duration_hours)]

(* _simulate_long_term_effects *)
SimulateLongTermEffects(params, duration_hours) ==
    [efficiency |-> (Get(params, "efficiency", 100000) * (100 - duration_hours)) \div 100,
     vibration_level |->
         Scaled(Get(params, "vibration_level", 0), 1000 + 5 * duration_hours),
     motor_temperature |->
         Scaled(Get(params, "motor_temperature", 0), 1000 + duration_hours)]

(* _analyze_scenario_results that fails a temperature or vibration equal    *)
(* to its critical threshold                                                *)
AnalyzeScenarioResults_BelowLimits(params) ==
    /\ params.motor_temperature < SENSOR_THRESHOLDS.temperature_critical
    /\ params.vibration_level < SENSOR_THRESHOLDS.vibration_critical
    /\ params.efficiency >= 60000

(* _analyze_scenario_results *)
AnalyzeScenarioResults(params) ==
    /\ params.motor_temperature <= SENSOR_THRESHOLDS.temperature_critical
    /\ params.vibration_level <= SENSOR_THRESHOLDS.vibration_critical
    /\ params.efficiency >= 60000

(* _generate_scenario_recommendations *)
GenerateScenarioRecommendations(scenario, params) ==
    (IF params.efficiency < 80000
     THEN << <<"consider optimising the operating parameters">> >> ELSE << >>)
    \o (IF params.motor_temperature > 80000
        THEN << <<"increase motor cooling">> >> ELSE << >>)

(* dict.update(other) *)
DictUpdate(d, other) ==
    [k \in DOMAIN d \cup DOMAIN other |-> IF k \in DOMAIN other THEN other[k] ELSE d[k]]

(* simulate_what_if_scenario *)
NoChanges == [k \in {} |-> 0]

SimulateWhatIfScenario(params, scenario_config, timestamp) ==
    LET changes == Get(scenario_config, "changes", NoChanges)
        overridden ==
            [k \in DOMAIN params |->
                IF k \in DOMAIN changes THEN changes[k] ELSE params[k]]
        duration_hours == Get(scenario_config, "duration_hours", 1)
        simulated_params ==
            DictUpdate(overridden, SimulateLongTermEffects(overridden, duration_hours))
        success == AnalyzeScenarioResults(simulated_params)
    IN  Value(SimulationResult(
            Get(scenario_config, "name", "what_if_scenario"), timestamp,
            simulated_params,
            IF success THEN << >>
            ELSE << <<"the scenario led to critical parameters">> >>,
            GenerateScenarioRecommendations(scenario_config, simulated_params),
            success))

(* _calculate_maintenance_roi: roi_percentage, in tenths of a percent as    *)
(* the recommendation prints it (.1f)                                       *)
MaintenanceCost(maintenance_type) ==
    CASE maintenance_type = "preventive" -> 1000
      [] maintenance_type = "corrective" -> 1500
      [] maintenance_type = "predictive" -> 1200
      [] OTHER -> 1000

CalculateMaintenanceRoi(params, maintenance_type, duration, improved_params) ==
    LET cost == MaintenanceCost(maintenance_type)
        efficiency_gain == improved_params.efficiency - params.efficiency
        benefit == efficiency_gain * 100
    IN  RoundDiv(benefit - cost * 1000, cost)

(* improved_params['efficiency'] + gain without the cap at 100 *)
ImprovedEfficiency_Uncapped(efficiency, gain) == efficiency + gain

(* min(100, improved_params['efficiency'] + gain) *)
ImprovedEfficiency(efficiency, gain) == Min(100000, efficiency + gain)

(* simulate_maintenance_impact *)
SimulateMaintenanceImpact(params, maintenance_type, duration_hours, timestamp) ==
    LET improved_params ==
            CASE maintenance_type = "preventive" ->
                    [params EXCEPT
                        !.vibration_level = (@ * 7) \div 10,
                        !.efficiency = ImprovedEfficiency(@, 10000)]
              [] maintenance_type = "corrective" ->
                    [params EXCEPT
                        !.vibration_level = (@ * 5) \div 10,
                        !.motor_temperature = @ - 5000,
                        !.efficiency = ImprovedEfficiency(@, 15000)]
              [] maintenance_type = "predictive" ->
                    [params EXCEPT
                        !.vibration_level = (@ * 6) \div 10,
                        !.motor_temperature = @ - 3000,
                        !.efficiency = ImprovedEfficiency(@, 12000)]
              [] OTHER -> params
        advice ==
            CASE maintenance_type = "preventive" ->
                    << <<"preventive maintenance will improve performance">> >>
              [] maintenance_type = "corrective" ->
                    << <<"corrective maintenance will remove current problems">> >>
              [] maintenance_type = "predictive" ->
                    << <<"predictive maintenance will prevent future failures">> >>
              [] OTHER -> << >>
        roi == CalculateMaintenanceRoi(params, maintenance_type, duration_hours,
                                       improved_params)
    IN  Value(SimulationResult("maintenance_" \o maintenance_type, timestamp,
                improved_params, << >>,
                advice \o << <<"predicted ROI", roi>> >>, TRUE))

(* _simulate_stress_load: the base dict is read under 'conveyor_speed'      *)
SimulateStressLoad(params, load_factor) ==
    LET base_params == params
    IN  IF ~HasKey(base_params, "conveyor_speed") THEN Error("KeyError")
        ELSE Value(
            [load_factor |-> load_factor,
             conveyor_speed |-> Scaled(base_params["conveyor_speed"], load_factor),
             motor_temperature |->
                 Scaled(base_params.motor_temperature, 1000 + (5 * load_factor) \div 10),
             vibration_level |->
                 Scaled(base_params.vibration_level, 1000 + (8 * load_factor) \div 10),
             motor_current |-> Scaled(base_params.motor_current, load_factor),
             efficiency |->
                 Scaled(base_params.efficiency,
                        1000 - (2 * Max(0, load_factor - 1000)) \div 10)])

(* _find_max_parameters *)
RECURSIVE MaxOver(_, _)
MaxOver(results, key) ==
    IF Len(results) = 1 THEN results[1][key]
    ELSE Max(results[1][key], MaxOver(Tail(results), key))

RECURSIVE MinOver(_, _)
MinOver(results, key) ==
    IF Len(results) = 1 THEN results[1][key]
    ELSE Min(results[1][key], MinOver(Tail(results), key))

FindMaxParameters(results) ==
    [key \in DOMAIN results[1] |->
        IF key \in {"conveyor_speed", "motor_temperature", "vibration_level",
                    "motor_current", "load_factor"}
        THEN MaxOver(results, key)
        ELSE IF key = "efficiency" THEN MinOver(results, key)
        ELSE results[1][key]]

(* run_stress_test.  np.linspace(0, duration_minutes, 10) gives the time    *)
(* points duration_minutes * k / 9, k = 0..9; the load factor of sample k   *)
(* is min(1.0, time_point / duration_minutes * 1.5)  (line 326).            *)
StressSamples == 10

TimePoint(duration_minutes, k) ==
    (duration_minutes * 1000 * k) \div (StressSamples - 1)

LoadFactor(duration_minutes, k) ==
    Min(1000, (TimePoint(duration_minutes, k) * 1500) \div (duration_minutes * 1000))

(* The loop of lines 325-334 from sample k on: the samples evaluated, the   *)
(* warnings, and the error if a sample raised one                           *)
RECURSIVE StressSweep(_, _, _, _)
StressSweep(params, duration_minutes, k, stress_results) ==
    IF k > StressSamples - 1
    THEN [raised |-> FALSE, results |-> stress_results, warnings |-> << >>,
          samples |-> k]
    ELSE LET stress_params ==
                 SimulateStressLoad(params, LoadFactor(duration_minutes, k))
         IN  IF stress_params.raised
             THEN [raised |-> TRUE, error |-> stress_params.error, samples |-> k + 1]
             ELSE IF \/ stress_params.value.motor_temperature
                            > SENSOR_THRESHOLDS.temperature_critical
                     \/ stress_params.value.vibration_level
                            > SENSOR_THRESHOLDS.vibration_critical
             THEN [raised |-> FALSE,
                   results |-> Append(stress_results, stress_params.value),
                   warnings |-> << <<"critical parameters reached at minute",
                                     Format1f(TimePoint(duration_minutes, k))>> >>,
                   samples |-> k + 1]
             ELSE StressSweep(params, duration_minutes, k + 1,
                              Append(stress_results, stress_params.value))

RunStressTest(params, duration_minutes, timestamp) ==
    LET sweep == StressSweep(params, duration_minutes, 0, << >>)
    IN  IF sweep.raised
        THEN [raised |-> TRUE, error |-> sweep.error, samples |-> sweep.samples]
        ELSE
        LET max_params == FindMaxParameters(sweep.results)
            success == sweep.warnings = << >>
            recommendations ==
                IF success
                THEN << <<"system is stable up to load (percent)",
                          Format1f(max_params.load_factor * 100)>> >>
                ELSE << <<"reduce the maximum working load">> >>
        IN  [raised |-> FALSE,
             value |-> SimulationResult("stress_test", timestamp, max_params,
                                        sweep.warnings, recommendations, success),
             samples |-> sweep.samples]

(* get_simulation_history(limit): simulation_history[-limit:], a Python     *)
(* slice: a start of 0 is the head of the list, a negative start counts     *)
(* from the end and stops at the head.                                      *)
SliceFrom(seq, start) ==
    LET first == IF start < 0 THEN Max(Len(seq) + start, 0) ELSE Min(start, Len(seq))
    IN  SubSeq(seq, first + 1, Len(seq))

GetSimulationHistory(history, limit) ==
    IF history # << >> THEN SliceFrom(history, -limit) ELSE << >>

----------------------------------------------------------------------------
(* The calls of the simulator.  A call that returns appends its result to   *)
(* simulation_history; a call that raises leaves the history as it was.     *)

(* a bug Simulate could have: the scenario worked on the twin's own dict    *)
(* (no .copy()), so that the projection lands in the live state             *)
Simulate_OnLiveState(op, args, outcome) ==
    /\ outcome.raised \/ Len(simulation_history) < MaxHistory
    /\ call' = CallOutcome(op, args, outcome)
    /\ simulation_history' =
           IF outcome.raised THEN simulation_history
           ELSE Append(simulation_history, outcome.value)
    /\ operational_parameters' =
           IF outcome.raised THEN operational_parameters
           ELSE [k \in DOMAIN operational_parameters |->
                    Get(outcome.value.parameters, k, operational_parameters[k])]
    /\ UNCHANGED aside
    /\ UNCHANGED <<config, sensor_data, alerts, operating_mode, now>>

Simulate(op, args, outcome) ==
    /\ outcome.raised \/ Len(simulation_history) < MaxHistory
    /\ call' = CallOutcome(op, args, outcome)
    /\ simulation_history' =
           IF outcome.raised THEN simulation_history
           ELSE Append(simulation_history, outcome.value)
    /\ UNCHANGED aside
    /\ UNCHANGED <<config, sensor_data, operational_parameters, alerts,
                   operating_mode, now>>

TargetSpeeds == {2000, 4000}
DurationMinutes == {60}

SimulateSpeedIncreaseCall ==
    \E target_speed \in TargetSpeeds, duration_minutes \in DurationMinutes :
        Simulate("simulate_speed_increase", <<target_speed, duration_minutes>>,
                 SimulateSpeedIncrease(operational_parameters, config,
                                       target_speed, duration_minutes, now))

Components == {"motor", "bearing", "sensor", "controller"}
Severities == {500, 1000}

(* simulate_component_failure whose severity grows with the time of the    *)
(* call                                                                     *)
SimulateComponentFailureOver_Drifting(components, severities) ==
    \E component \in components, severity \in severities :
        Simulate("simulate_component_failure", <<component, severity>>,
                 SimulateComponentFailure(operational_parameters, component,
                                          severity * (1 + now), now))

SimulateComponentFailureOver(components, severities) ==
    \E component \in components, severity \in severities :
        Simulate("simulate_component_failure", <<component, severity>>,
                 SimulateComponentFailure(operational_parameters, component,
                                          severity, now))

SimulateComponentFailureCall == SimulateComponentFailureOver(Components, Severities)

(* What-if scenarios: an override of a field of the state, the template of  *)
(* create_scenario_template (which names conveyor_speed, no field of the    *)
(* state), and a scenario without changes and duration.                     *)
WhatIfScenarios ==
    { [name |-> "hot motor", changes |-> [motor_temperature |-> 95000],
       duration_hours |-> 0],
      [name |-> "template",
       changes |-> [conveyor_speed |-> 0, motor_temperature |-> 0,
                    vibration_level |-> 0],
       duration_hours |-> 1],
      [name |-> "long run", duration_hours |-> 50] }

SimulateWhatIfOver(scenarios) ==
    \E scenario_config \in scenarios :
        Simulate("simulate_what_if_scenario", <<scenario_config>>,
                 SimulateWhatIfScenario(operational_parameters, scenario_config, now))

SimulateWhatIfScenarioCall == SimulateWhatIfOver(WhatIfScenarios)

MaintenanceTypes == {"preventive", "corrective", "predictive"}
DurationHours == {8}

SimulateMaintenanceImpactCall ==
    \E maintenance_type \in MaintenanceTypes, duration_hours \in DurationHours :
        Simulate("simulate_maintenance_impact", <<maintenance_type, duration_hours>>,
                 SimulateMaintenanceImpact(operational_parameters, maintenance_type,
                                           duration_hours, now))

StressDurations == {30}

RunStressTestCall ==
    \E duration_minutes \in StressDurations :
        LET outcome == RunStressTest(operational_parameters, duration_minutes, now)
        IN  /\ outcome.raised \/ Len(simulation_history) < MaxHistory
            /\ call' = CallOutcome("run_stress_test", <<duration_minutes>>, outcome)
                           @@ [samples |-> outcome.samples]
            /\ simulation_history' =
                   IF outcome.raised THEN simulation_history
                   ELSE Append(simulation_history, outcome.value)
            /\ UNCHANGED aside
            /\ UNCHANGED <<config, sensor_data, operational_parameters, alerts,
                           operating_mode, now>>

HistoryLimits == 0..2

GetSimulationHistoryCall ==
    \E limit \in HistoryLimits :
        /\ call' = Returned("get_simulation_history", <<limit>>,
                            GetSimulationHistory(simulation_history, limit))
        /\ UNCHANGED aside
        /\ UNCHANGED <<config, sensor_data, operational_parameters, alerts,
                       operating_mode, simulation_history, now>>

ClearHistoryCall ==
    /\ simulation_history' = << >>
    /\ call' = Returned("clear_history", << >>, "None")
    /\ UNCHANGED aside
    /\ UNCHANGED <<config, sensor_data, operational_parameters, alerts,
                   operating_mode, now>>

----------------------------------------------------------------------------
(* The whole program: the update cycle and the on-demand calls *)

Next ==
    \/ \E snapshot \in Snapshots : UpdateState(snapshot)
    \/ PredictMaintenanceCall
    \/ CalculateOEECall
    \/ TrendAnalysisCall
    \/ GenerateReportCall
    \/ SimulateSpeedIncreaseCall
    \/ SimulateComponentFailureCall
    \/ SimulateWhatIfScenarioCall
    \/ SimulateMaintenanceImpactCall
    \/ RunStressTestCall
    \/ GetSimulationHistoryCall
    \/ ClearHistoryCall

Spec == Init /\ [][Next]_vars

----------------------------------------------------------------------------
(* The twin alone, fed every snapshot of the grid *)

NextTwin == \E snapshot \in SnapshotGrid : UpdateState(snapshot)

SpecTwin == Init /\ [][NextTwin]_vars

----------------------------------------------------------------------------
(* The twin and its analytics: updates, and the read-only calls of          *)
(* DigitalTwin and AnalyticsEngine.  update_state takes any dictionary, so  *)
(* the snapshots include a speed of 1000.0, which brings items_processed    *)
(* to 100 in one cycle.                                                     *)

FastSnapshot ==
    [timestamp |-> 0, conveyor_speed |-> 1000000, motor_temperature |-> 40000,
     vibration_level |-> 2000, motor_current |-> 10000]

AnalyticsSnapshots == Snapshots \cup {FastSnapshot}

(* Series of 0, 1, 2, 9, 10 and 11 points: a line of the given step from 0, *)
(* every second point moved by the given offset.                            *)
TrendInputs ==
    { [i \in 1..n |-> step * (i - 1) + offset * ((i - 1) % 2)] :
        n \in {0, 1, 2, 9, 10, 11},
        step \in {-200, -50, 0, 50, 150, 200, 300},
        offset \in {0, 50, -250} }
TrendInputWindows == {2, 10}

NextAnalytics ==
    \/ \E snapshot \in AnalyticsSnapshots : UpdateState(snapshot)
    \/ PredictMaintenanceCall
    \/ CalculateOEECall
    \/ TrendAnalysisOver(TrendInputs, TrendInputWindows)
    \/ GenerateReportCall

SpecAnalytics == Init /\ [][NextAnalytics]_vars

----------------------------------------------------------------------------
(* The twin and the scenarios simulated on a copy of its state.  The        *)
(* scenarios add overrides at and just beyond the limits that               *)
(* _analyze_scenario_results tests.                                         *)

LimitScenarios ==
    { [name |-> "at the limits",
       changes |-> [motor_temperature |-> 90000, vibration_level |-> 7000,
                    efficiency |-> 60000],
       duration_hours |-> 0],
      [name |-> "vibration over", changes |-> [vibration_level |-> 7010],
       duration_hours |-> 0],
      [name |-> "efficiency under", changes |-> [efficiency |-> 59990],
       duration_hours |-> 0] }

(* A what-if scenario that changes nothing: the result is the copy the      *)
(* simulator took of the twin's state (line 210)                            *)
AsIsScenario == [name |-> "as is", duration_hours |-> 0]

(* Overrides followed by degradation, and a run past the 100 hours at which *)
(* the degraded efficiency reaches 0                                        *)
RunScenarios ==
    { AsIsScenario,
      [name |-> "override and run",
       changes |-> [motor_temperature |-> 80000, efficiency |-> 90000],
       duration_hours |-> 10],
      [name |-> "very long run", duration_hours |-> 200] }

NextScenarios ==
    \/ \E snapshot \in Snapshots : UpdateState(snapshot)
    \/ SimulateWhatIfOver(WhatIfScenarios \cup LimitScenarios \cup RunScenarios)
    \/ SimulateMaintenanceImpactCall

SpecScenarios == Init /\ [][NextScenarios]_vars

----------------------------------------------------------------------------
(* The twin constructed over whatever load_config() returns: __init__       *)
(* stores the dictionary as it is, complete or not.                         *)

InitAnyConfig == \E cfg \in Configs : InitWith(cfg)

NextConfigured ==
    \/ \E snapshot \in Snapshots : UpdateState(snapshot)
    \/ PredictMaintenanceCall
    \/ CalculateOEECall
    \/ GenerateReportCall

SpecAnyConfig == InitAnyConfig /\ [][NextConfigured]_vars

----------------------------------------------------------------------------
(* The twin and the component failures simulated on a copy of its state,    *)
(* with the history cleared in between.  The severities go beyond the       *)
(* documented 0.1 .. 1.0 to the one that drives the efficiency below 0.     *)

FailureSeverities == Severities \cup {3000}

NextFailures ==
    \/ \E snapshot \in Snapshots : UpdateState(snapshot)
    \/ SimulateComponentFailureOver(Components, FailureSeverities)
    \/ ClearHistoryCall

SpecFailures == Init /\ [][NextFailures]_vars

----------------------------------------------------------------------------
(* update_state and its readers as threads.  Neither the twin nor its       *)
(* readers take a lock, so a thread that calls update_state and a thread    *)
(* that calls calculate_oee or a simulation interleave between the          *)
(* statements of update_state (lines 27, 30-35, 38, 41, 44) and between the *)
(* three reads of calculate_oee (lines 12-14).  dict.update and dict.copy   *)
(* are one step each.                                                       *)

(* lines 27-35: self.sensor_data = sensor_data; operational_parameters.update *)
UpdateMerge(snapshot) ==
    /\ update_pc = "idle"
    /\ now < MaxCycles
    /\ now' = now + 1
    /\ sensor_data' = [snapshot EXCEPT !.timestamp = now']
    /\ operational_parameters' = MergeSnapshot(operational_parameters, snapshot)
    /\ update_pc' = "merged"
    /\ UNCHANGED <<config, alerts, operating_mode, simulation_history, call,
                   reader, cycle_log,
                   services>>

(* line 38: self._calculate_efficiency() *)
UpdateEfficiency ==
    /\ update_pc = "merged"
    /\ operational_parameters' =
           [operational_parameters EXCEPT
               !.efficiency = CalculateEfficiency(operational_parameters)]
    /\ update_pc' = "scored"
    /\ UNCHANGED <<config, sensor_data, alerts, operating_mode,
                   simulation_history, now, call, reader, cycle_log,
                   services>>

(* line 41: self._check_anomalies() *)
UpdateAnomalies ==
    /\ update_pc = "scored"
    /\ alerts' = CheckAnomalies(operational_parameters, now)
    /\ update_pc' = "checked"
    /\ UNCHANGED <<config, sensor_data, operational_parameters, operating_mode,
                   simulation_history, now, call, reader, cycle_log,
                   services>>

(* line 44: self._update_statistics(), and the return *)
UpdateCounters ==
    /\ update_pc = "checked"
    /\ operational_parameters' = UpdateStatistics(operational_parameters)
    /\ update_pc' = "idle"
    /\ call' = Returned("update_state", sensor_data, "None")
    /\ UNCHANGED <<config, sensor_data, alerts, operating_mode,
                   simulation_history, now, reader, cycle_log,
                   services>>

(* The update cycle whose value a part of the twin holds: the readings are  *)
(* of cycle now as soon as they are merged, the efficiency, the alerts and  *)
(* the counters are of the cycle before until their statement has run.      *)
ReadingsCycle == now
EfficiencyCycle == IF update_pc = "merged" THEN now - 1 ELSE now
AlertsCycle == IF update_pc \in {"merged", "scored"} THEN now - 1 ELSE now
CountersCycle == IF update_pc = "idle" THEN now ELSE now - 1

(* calculate_oee, line 12: availability = self._calculate_availability() *)
OEEAvailability ==
    /\ reader.pc \in {"idle", "done"}
    /\ reader' = [pc |-> "availability",
                  availability |-> CalculateAvailability(alerts),
                  performance |-> IdleReader.performance,
                  cycles |-> <<AlertsCycle>>]
    /\ UNCHANGED <<config, sensor_data, operational_parameters, alerts,
                   operating_mode, simulation_history, now, call, update_pc,
                   cycle_log,
                   services>>

(* line 13: performance = self._calculate_performance(), which may raise *)
OEEPerformance ==
    /\ reader.pc = "availability"
    /\ LET performance == CalculatePerformance(operational_parameters)
       IN  IF performance.raised
           THEN /\ reader' = IdleReader
                /\ call' = Raised("calculate_oee", << >>, performance.error)
           ELSE /\ reader' = [reader EXCEPT
                                 !.pc = "performance",
                                 !.performance = performance.value,
                                 !.cycles = Append(@, ReadingsCycle)]
                /\ call' = call
    /\ UNCHANGED <<config, sensor_data, operational_parameters, alerts,
                   operating_mode, simulation_history, now, update_pc,
                   cycle_log,
                   services>>

(* lines 14-22: quality = self._calculate_quality(), the product, the return *)
OEEQuality ==
    /\ reader.pc = "performance"
    /\ LET quality == CalculateQuality(operational_parameters)
       IN  call' = Returned("calculate_oee", << >>,
                    [oee |-> Percent(Ratio(
                        reader.availability.num * reader.performance.num
                            * quality.num,
                        reader.availability.den * reader.performance.den
                            * quality.den)),
                     availability |-> Percent(reader.availability),
                     performance |-> Percent(reader.performance),
                     quality |-> Percent(quality)])
    /\ reader' = [reader EXCEPT !.pc = "done",
                                !.cycles = Append(@, CountersCycle)]
    /\ UNCHANGED <<config, sensor_data, operational_parameters, alerts,
                   operating_mode, simulation_history, now, update_pc,
                   cycle_log,
                   services>>

NextThreads ==
    \/ \E snapshot \in Snapshots : UpdateMerge(snapshot)
    \/ UpdateEfficiency
    \/ UpdateAnomalies
    \/ UpdateCounters
    \/ OEEAvailability
    \/ OEEPerformance
    \/ OEEQuality
    \/ SimulateWhatIfOver({AsIsScenario})

SpecThreads == Init /\ [][NextThreads]_vars

----------------------------------------------------------------------------
(* Every operation of the twin, the analytics and the simulator, over the   *)
(* two complete snapshots and one failure and one scenario: the calls that  *)
(* could write the twin's mode or counters, with a history of any length    *)

OperationSnapshots == {s \in Snapshots : "motor_current" \in DOMAIN s}

NextOperations ==
    \/ \E snapshot \in OperationSnapshots : UpdateState(snapshot)
    \/ PredictMaintenanceCall
    \/ CalculateOEECall
    \/ TrendAnalysisCall
    \/ GenerateReportCall
    \/ SimulateSpeedIncreaseCall
    \/ SimulateComponentFailureOver({"motor"}, {500})
    \/ SimulateWhatIfOver({AsIsScenario})
    \/ SimulateMaintenanceImpactCall
    \/ RunStressTestCall
    \/ GetSimulationHistoryCall
    \/ ClearHistoryCall

SpecOperations == Init /\ [][NextOperations]_vars

----------------------------------------------------------------------------
(* ConveyorDigitalTwin._main_loop (main.py): one cycle reads the registers, *)
(* updates the twin, saves the snapshot, publishes it, and hands every      *)
(* alert to the broker and to the database.                                 *)

(* config/modbus_config.py: MODBUS_REGISTERS, the scale of each register in *)
(* thousandths                                                              *)
MODBUS_REGISTERS ==
    [encoder_position  |-> [address |-> 0, scale |-> 100],
     motor_temperature |-> [address |-> 1, scale |-> 100],
     vibration_level   |-> [address |-> 2, scale |-> 10],
     motor_current     |-> [address |-> 3, scale |-> 10],
     conveyor_speed    |-> [address |-> 4, scale |-> 10],
     emergency_stop    |-> [address |-> 5, scale |-> 1000]]

(* What the device answers to read_holding_registers, register by register: *)
(* an error (or an exception of the client), or the raw register            *)
Failed == [error |-> TRUE, register |-> 0]
Answer(raw_value) == [error |-> FALSE, register |-> raw_value]

(* ModbusClient.read_register: the scaled value, or None *)
ReadRegister(replies, register_name) ==
    IF replies[register_name].error THEN Error("None")
    ELSE Value(replies[register_name].register
                   * MODBUS_REGISTERS[register_name].scale)

(* ModbusClient.read_all_sensors: the registers read, a failed one left out *)
ReadAllSensors(replies) ==
    LET read == {name \in DOMAIN MODBUS_REGISTERS :
                     ~ReadRegister(replies, name).raised}
    IN  [name \in read |-> ReadRegister(replies, name).value]

(* get_sensor_data without the time stamp *)
GetSensorData_Unstamped(raw_data, timestamp) == raw_data

(* SensorManager.get_sensor_data: {'timestamp': ..., **raw_data} *)
GetSensorData(raw_data, timestamp) == raw_data @@ [timestamp |-> timestamp]

(* The answers of the device in one cycle: a conveyor at rest, a nominal    *)
(* one, an overheated and shaking one, one that answers for two registers   *)
(* only, and one that answers for none                                      *)
DeviceReplies ==
    { [encoder_position |-> Answer(0), motor_temperature |-> Answer(0),
       vibration_level |-> Answer(0), motor_current |-> Answer(0),
       conveyor_speed |-> Answer(0), emergency_stop |-> Answer(0)],
      [encoder_position |-> Answer(10), motor_temperature |-> Answer(400),
       vibration_level |-> Answer(200), motor_current |-> Answer(1000),
       conveyor_speed |-> Answer(100), emergency_stop |-> Answer(0)],
      [encoder_position |-> Answer(10), motor_temperature |-> Answer(1300),
       vibration_level |-> Answer(800), motor_current |-> Answer(2000),
       conveyor_speed |-> Answer(2000), emergency_stop |-> Answer(0)],
      [encoder_position |-> Failed, motor_temperature |-> Answer(950),
       vibration_level |-> Failed, motor_current |-> Failed,
       conveyor_speed |-> Answer(100), emergency_stop |-> Failed],
      [encoder_position |-> Failed, motor_temperature |-> Failed,
       vibration_level |-> Failed, motor_current |-> Failed,
       conveyor_speed |-> Failed, emergency_stop |-> Failed] }

(* DatabaseManager.save_sensor_data.  With no connection (connect() logged  *)
(* its error and left None) self.connection.cursor() raises, and so does    *)
(* self.connection.rollback() in the handler (line 47): the error leaves    *)
(* the method.  A statement that fails on an open connection is rolled back *)
SaveSensorData(connection, statement_ok) ==
    IF connection = "none" THEN Error("AttributeError")
    ELSE IF statement_ok THEN Value("committed")
    ELSE Value("rolled back")

(* DatabaseManager.save_alert: the handler logs and nothing more *)
SaveAlert(connection, statement_ok) ==
    IF connection = "none" THEN Value("logged")
    ELSE IF statement_ok THEN Value("committed")
    ELSE Value("logged")

(* MQTTClient.publish_sensor_data, publish_alert: sent only when connected *)
Publish(connected) == IF connected THEN "published" ELSE "not connected"

(* One call of the cycle: the operation, the type of the alert it was given *)
(* (none for the snapshot), and how it ended                                *)
Called(op, alert_type, outcome) ==
    [op |-> op, alert |-> alert_type, outcome |-> outcome]

(* lines 93-96: for alert in self.digital_twin.alerts *)
AlertCalls(alert_list, svc, statement_ok) ==
    [i \in 1..(2 * Len(alert_list)) |->
        IF i % 2 = 1
        THEN Called("publish_alert", alert_list[(i + 1) \div 2].type,
                    Publish(svc.connected))
        ELSE Called("save_alert", alert_list[i \div 2].type,
                    SaveAlert(svc.connection, statement_ok).value)]

(* lines 83-96, what follows update_state.  An error of save_sensor_data    *)
(* reaches the handler of line 105 and ends the cycle                       *)
AfterUpdate(alert_list, svc, statement_ok) ==
    LET saved == SaveSensorData(svc.connection, statement_ok)
    IN  IF saved.raised
        THEN <<Called("save_sensor_data", "", saved.error)>>
        ELSE <<Called("save_sensor_data", "", saved.value),
               Called("publish_sensor_data", "", Publish(svc.connected))>>
                 \o AlertCalls(alert_list, svc, statement_ok)

(* _main_loop, one cycle; it returns whatever happened inside (line 105) *)
MainLoopCycle(replies, statement_ok) ==
    /\ now < MaxCycles
    /\ now' = now + 1
    /\ LET raw_data == ReadAllSensors(replies)
           snapshot == GetSensorData(raw_data, now')
           new_alerts == UpdatedAlerts(operational_parameters, alerts,
                                       snapshot, now')
       IN  IF DOMAIN snapshot # {}
           THEN /\ sensor_data' = snapshot
                /\ operational_parameters' =
                       UpdatedParameters(operational_parameters, snapshot)
                /\ alerts' = new_alerts
                /\ cycle_log' = <<Called("update_state", "", "None")>>
                                    \o AfterUpdate(new_alerts, services,
                                                   statement_ok)
           ELSE /\ cycle_log' = << >>
                /\ UNCHANGED <<sensor_data, operational_parameters, alerts>>
    /\ call' = Returned("_main_loop", replies, "None")
    /\ UNCHANGED <<config, operating_mode, simulation_history, update_pc,
                   reader, services>>

(* MQTTClient._on_connect, _on_disconnect: called by the network thread of  *)
(* the broker client at any time                                            *)
OnConnect(rc) ==
    /\ services' = [services EXCEPT !.connected = IF rc = 0 THEN TRUE ELSE @]
    /\ UNCHANGED <<config, sensor_data, operational_parameters, alerts,
                   operating_mode, simulation_history, now, call, update_pc,
                   reader, cycle_log>>

OnDisconnect ==
    /\ services' = [services EXCEPT !.connected = FALSE]
    /\ UNCHANGED <<config, sensor_data, operational_parameters, alerts,
                   operating_mode, simulation_history, now, call, update_pc,
                   reader, cycle_log>>

ReturnCodes == {0, 5}

(* DatabaseManager(): connect() succeeded, or failed and left None *)
InitMainLoop == \E connection \in {"open", "none"} : InitOf(ConfigFull, connection)

NextMainLoop ==
    \/ \E replies \in DeviceReplies, statement_ok \in BOOLEAN :
           MainLoopCycle(replies, statement_ok)
    \/ \E rc \in ReturnCodes : OnConnect(rc)
    \/ OnDisconnect

SpecMainLoop == InitMainLoop /\ [][NextMainLoop]_vars

----------------------------------------------------------------------------
(* Properties *)

SimulationCalls ==
    {"simulate_speed_increase", "simulate_component_failure",
     "simulate_what_if_scenario", "simulate_maintenance_impact",
     "run_stress_test"}

(* C1: after any sequence of updates the stored efficiency is between 60    *)
(* and 100, and after an update it is 100 minus the temperature, vibration  *)
(* and current penalties of the stored readings, raised to 60 if lower.     *)
C1_EfficiencyInRange ==
    LET p == operational_parameters
        over_temperature == Max(0, p.motor_temperature - 80000)
        over_vibration == Max(0, p.vibration_level - 5000)
        over_current == Max(0, p.motor_current - 15000)
        unclamped == 100000 - over_temperature \div 2 - 2 * over_vibration
                            - (3 * over_current) \div 2
    IN  /\ p.efficiency >= 60000
        /\ p.efficiency <= 100000
        /\ call.op = "update_state" =>
               p.efficiency = (IF unclamped < 60000 THEN 60000 ELSE unclamped)

(* an update whose penalties exceed 40 points: the floor of 60 is what is stored *)
C1_Witness ==
    /\ call.op = "update_state"
    /\ operational_parameters.efficiency = 60000
    /\ operational_parameters.motor_temperature = 170000
    /\ operational_parameters.vibration_level = 12000

(* C2: only update_state writes live state: every other call leaves         *)
(* operational_parameters and alerts exactly as they were.                  *)
C2_OnlyUpdateWritesTwin ==
    [][call'.op # "update_state" => twin' = twin]_vars

(* a maintenance simulation has returned a projection that differs from the *)
(* live state of an updated twin                                            *)
C2_Witness ==
    /\ now >= 1
    /\ call.op = "simulate_maintenance_impact"
    /\ call.status = "returned"
    /\ simulation_history # << >>
    /\ call.result.parameters # operational_parameters

(* C3: each of the five simulations returns a result without raising, and   *)
(* that result is the entry the history has grown by.                       *)
C3_SimulationsReturnAndAppend ==
    call.op \in SimulationCalls =>
        /\ call.status = "returned"
        /\ simulation_history # << >>
        /\ simulation_history[Len(simulation_history)] = call.result

(* C4: simulate_component_failure returns a result with success = false     *)
(* for every component, severity and baseline.                              *)
C4_FailureNeverSucceeds ==
    call.op = "simulate_component_failure" =>
        /\ call.status = "returned"
        /\ call.result.success = FALSE

(* C5: simulate_speed_increase returns success = false exactly when the     *)
(* target exceeds max_speed or the projected temperature or vibration       *)
(* exceeds its critical threshold; on success the recommendations mention   *)
(* the target speed.                                                        *)
C5_SpeedIncreaseSuccess ==
    call.op = "simulate_speed_increase" =>
        LET target_speed == call.args[1]
            projected == PredictParametersForSpeed(operational_parameters, target_speed)
            breach == \/ target_speed > config.conveyor.max_speed
                      \/ projected.motor_temperature > 90000
                      \/ projected.vibration_level > 7000
        IN  /\ call.status = "returned"
            /\ call.result.success = ~breach
            /\ call.result.success =>
                   \E i \in 1..Len(call.result.recommendations) :
                       call.result.recommendations[i] =
                           <<"speed can be increased to", target_speed>>

(* C6: after an update with temperature above critical, vibration at or     *)
(* below warning and efficiency at least 75, the alert set is exactly one   *)
(* CRITICAL_TEMPERATURE alert of severity HIGH.                             *)
C6_OnlyCriticalTemperature ==
    (/\ call.op = "update_state"
     /\ operational_parameters.motor_temperature > 90000
     /\ operational_parameters.vibration_level <= 5000
     /\ operational_parameters.efficiency >= 75000)
    => /\ Len(alerts) = 1
       /\ alerts[1].type = "CRITICAL_TEMPERATURE"
       /\ alerts[1].severity = "HIGH"

(* such an update, at the efficiency bound itself (temperature 130, the     *)
(* penalty is 25 points)                                                    *)
C6_Witness ==
    /\ call.op = "update_state"
    /\ operational_parameters.motor_temperature = 130000
    /\ operational_parameters.vibration_level <= 5000
    /\ operational_parameters.efficiency = 75000
    /\ Len(alerts) = 1

(* C7: the alert set is that of the current cycle alone: its alerts are     *)
(* exactly the breaches of the stored state (temperature > critical,        *)
(* vibration > critical, efficiency < 75), none when nothing is breached,   *)
(* and each is stamped with the cycle of the last update.                   *)
C7_AlertsOfCurrentCycleOnly ==
    LET p == operational_parameters
        breaches ==
            (IF p.motor_temperature > 90000 THEN <<"CRITICAL_TEMPERATURE">> ELSE << >>)
            \o (IF p.vibration_level > 7000 THEN <<"HIGH_VIBRATION">> ELSE << >>)
            \o (IF p.efficiency < 75000 THEN <<"LOW_EFFICIENCY">> ELSE << >>)
    IN  /\ Len(alerts) = Len(breaches)
        /\ \A i \in 1..Len(alerts) :
               /\ alerts[i].type = breaches[i]
               /\ alerts[i].timestamp = now

(* a breach in a second cycle: the alerts carry that cycle's stamp *)
C7_Witness ==
    /\ now = 2
    /\ call.op = "update_state"
    /\ Len(alerts) = 3
    /\ \A i \in 1..3 : alerts[i].timestamp = 2

(* C8: run_stress_test returns; when a sample breaches a critical threshold *)
(* the sweep stops there with a warning and success = false, and otherwise  *)
(* all 10 samples are evaluated and success = true.                         *)
C8_StressTestStopsAtBreach ==
    call.op = "run_stress_test" =>
        /\ call.status = "returned"
        /\ call.result.success = (call.result.warnings = << >>)
        /\ call.result.success => call.samples = StressSamples
        /\ ~call.result.success =>
               \/ call.result.parameters.motor_temperature > 90000
               \/ call.result.parameters.vibration_level > 7000

(* C9: sample k of 10 has load factor 1.5 * (k - 1) / 9, up to 1.5 at the   *)
(* last sample, and a sweep that no breach stops evaluates all of them.     *)
C9_LoadSweepsToOneAndAHalf ==
    call.op = "run_stress_test" =>
        /\ \A k \in 1..StressSamples :
               LoadFactor(call.args[1], k - 1) = (1500 * (k - 1)) \div 9
        /\ call.status = "returned"
        /\ call.result.success =>
               /\ call.samples = StressSamples
               /\ call.result.parameters.load_factor = 1500

(* C10: calculate_oee returns in every state, speed 0 included, with        *)
(* performance = ideal_cycle_time * max(current_speed, 0.1).                *)
C10_OEEWithFlooredSpeed ==
    call.op = "calculate_oee" =>
        /\ call.status = "returned"
        /\ call.result.performance.num * 1000 =
               100 * Max(operational_parameters.current_speed, 100)
                   * call.result.performance.den

(* Exact arithmetic on ratios, for stating properties of the OEE metrics *)
RECURSIVE Gcd(_, _)
Gcd(a, b) == IF b = 0 THEN a ELSE Gcd(b, a % b)

Reduced(r) ==
    LET g == Gcd(r.num, r.den) IN Ratio(r.num \div g, r.den \div g)

Times(r, s) ==
    LET a == Reduced(Ratio(r.num, s.den))
        b == Reduced(Ratio(s.num, r.den))
    IN  Reduced(Ratio(a.num * b.num, a.den * b.den))

Fraction(percent) == Reduced(Ratio(percent.num, percent.den * 100))

(* C11: with no active alert, current_speed 1.0, 100 items processed and no *)
(* defect, calculate_oee returns availability, performance, quality and oee *)
(* of 100%; and whenever it returns, oee is the product of availability,    *)
(* performance and quality.                                                 *)
C11_OEEIsProduct ==
    (call.op = "calculate_oee" /\ call.status = "returned") =>
        LET m == call.result
            p == operational_parameters
        IN  /\ Fraction(m.oee)
                   = Times(Times(Fraction(m.availability),
                                 Fraction(m.performance)),
                           Fraction(m.quality))
            /\ (/\ alerts = << >>
                /\ p.current_speed = 1000
                /\ p.items_processed = 100
                /\ p.defects_count = 0)
               => \A k \in {"availability", "performance", "quality", "oee"} :
                      m[k].num = 100 * m[k].den

C11_Witness ==
    /\ call.op = "calculate_oee"
    /\ call.status = "returned"
    /\ alerts = << >>
    /\ operational_parameters.current_speed = 1000
    /\ operational_parameters.items_processed = 100
    /\ operational_parameters.defects_count = 0
    /\ call.result.oee.num = 100 * call.result.oee.den

(* C12: trend_analysis returns INSUFFICIENT_DATA whenever the series has    *)
(* fewer points than the window, whatever the values of the points.         *)
C12_ShortSeriesInsufficient ==
    (call.op = "trend_analysis" /\ Len(call.args[1]) < call.args[2]) =>
        /\ call.status = "returned"
        /\ call.result = "INSUFFICIENT_DATA"

C12_Witness ==
    /\ call.op = "trend_analysis"
    /\ Len(call.args[1]) = call.args[2] - 1
    /\ Len(call.args[1]) >= 2
    /\ call.args[1][1] # call.args[1][2]
    /\ call.result = "INSUFFICIENT_DATA"

(* The least-squares slope over ten points y[1] .. y[10], times 165: with   *)
(* x = 0 .. 9 the mean of x is 4.5 and the sum of (x - 4.5)^2 is 82.5.      *)
CentredSum(y) ==
    9 * (y[10] - y[1]) + 7 * (y[9] - y[2]) + 5 * (y[8] - y[3])
        + 3 * (y[7] - y[4]) + (y[6] - y[5])

StrictlyIncreasing(seq) == \A i \in 1..(Len(seq) - 1) : seq[i] < seq[i + 1]

LastTen(seq) == [i \in 1..10 |-> seq[Len(seq) - 10 + i]]

(* C13: with window 10, a strictly increasing series of at least 10 points  *)
(* whose least-squares slope over the last 10 points is at least 0.2 is     *)
(* INCREASING; over the last 10 points a slope above 0.1 is INCREASING, a   *)
(* slope below -0.1 is DECREASING and anything else is STABLE.              *)
C13_SteadyRiseIsIncreasing ==
    (call.op = "trend_analysis" /\ call.args[2] = 10
                                /\ Len(call.args[1]) >= 10) =>
        LET series == call.args[1]
            slope165 == CentredSum(LastTen(series))
        IN  /\ (StrictlyIncreasing(series) /\ slope165 >= 200 * 165)
                   => call.result = "INCREASING"
            /\ call.result = (IF slope165 > 100 * 165 THEN "INCREASING"
                              ELSE IF slope165 < (-100) * 165 THEN "DECREASING"
                              ELSE "STABLE")

C13_Witness ==
    /\ call.op = "trend_analysis"
    /\ call.args[2] = 10
    /\ Len(call.args[1]) = 11
    /\ StrictlyIncreasing(call.args[1])
    /\ call.args[1][3] - call.args[1][2] # call.args[1][2] - call.args[1][1]
    /\ CentredSum(LastTen(call.args[1])) >= 200 * 165
    /\ call.result = "INCREASING"

(* C14: uptime_hours and items_processed never decrease; every update adds *)
(* 0.0002778 h to uptime_hours and the whole part of a tenth of the stored  *)
(* current_speed to items_processed.                                        *)
C14_CountersAccumulate ==
    [][LET before == operational_parameters
           after == operational_parameters'
       IN  /\ after.uptime_hours >= before.uptime_hours
           /\ after.items_processed >= before.items_processed
           /\ (call'.op = "update_state") =>
                  /\ after.uptime_hours = before.uptime_hours + 2778
                  /\ after.items_processed
                         = before.items_processed
                               + (after.current_speed \div 10000)]_vars

C14_Witness ==
    /\ now = 2
    /\ operational_parameters.current_speed = 0
    /\ operational_parameters.uptime_hours = 2 * 2778
    /\ operational_parameters.items_processed = 2

(* C15: predict_maintenance reports the bearing failure with urgency HIGH   *)
(* when vibration > 6.0, temperature > 85 and efficiency < 80, also when    *)
(* the uptime exceeds the maintenance interval; otherwise scheduled         *)
(* maintenance with urgency MEDIUM when uptime_hours exceeds the configured *)
(* maintenance_interval; otherwise no maintenance, urgency LOW and no       *)
(* predicted failure.                                                       *)
C15_MaintenanceDecisionTable ==
    (call.op = "predict_maintenance") =>
        LET p == operational_parameters
            bearing == /\ p.vibration_level > 6000
                       /\ p.motor_temperature > 85000
                       /\ p.efficiency < 80000
            overdue == p.uptime_hours > config.conveyor.maintenance_interval
        IN  /\ call.status = "returned"
            /\ call.result.urgency
                   = (IF bearing THEN "HIGH" ELSE IF overdue THEN "MEDIUM"
                      ELSE "LOW")
            /\ call.result.predicted_failure
                   = (IF bearing THEN "motor bearing"
                      ELSE IF overdue THEN "scheduled maintenance"
                      ELSE "None")
            /\ call.result.maintenance_needed = (bearing \/ overdue)

C15_Witness ==
    /\ call.op = "predict_maintenance"
    /\ operational_parameters.vibration_level > 6000
    /\ operational_parameters.motor_temperature > 85000
    /\ operational_parameters.efficiency < 80000
    /\ operational_parameters.uptime_hours > config.conveyor.maintenance_interval
    /\ call.result.urgency = "HIGH"

(* C16: simulate_what_if_scenario returns success exactly when the         *)
(* projected temperature is at most the critical temperature, the projected *)
(* vibration is at most the critical vibration and the projected efficiency *)
(* is at least 60; when success is false the warnings are not empty.        *)
C16_WhatIfSuccessIffWithinLimits ==
    (call.op = "simulate_what_if_scenario") =>
        /\ call.status = "returned"
        /\ LET projected == call.result.parameters
           IN  call.result.success
                   <=> /\ projected.motor_temperature <= 90000
                       /\ projected.vibration_level <= 7000
                       /\ projected.efficiency >= 60000
        /\ ~call.result.success => call.result.warnings # << >>

C16_Witness ==
    /\ call.op = "simulate_what_if_scenario"
    /\ call.status = "returned"
    /\ call.result.parameters.motor_temperature = 90000
    /\ call.result.parameters.vibration_level = 7000
    /\ call.result.parameters.efficiency = 60000
    /\ call.result.success
    /\ call.result.warnings = << >>

(* C17: simulate_maintenance_impact always returns success, and for the     *)
(* types preventive, corrective and predictive the projected efficiency is  *)
(* the lesser of 100 and the twin's efficiency plus 10, 15 and 12: never    *)
(* above 100 and never below the twin's efficiency.                         *)
C17_MaintenanceGainCapped ==
    (call.op = "simulate_maintenance_impact") =>
        LET baseline == operational_parameters.efficiency
            gain == CASE call.args[1] = "preventive" -> 10000
                      [] call.args[1] = "corrective" -> 15000
                      [] call.args[1] = "predictive" -> 12000
            projected == call.result.parameters.efficiency
        IN  /\ call.status = "returned"
            /\ call.result.success
            /\ projected = (IF baseline + gain < 100000 THEN baseline + gain
                            ELSE 100000)
            /\ projected <= 100000
            /\ projected >= baseline

C17_Witness ==
    /\ call.op = "simulate_maintenance_impact"
    /\ call.args[1] = "preventive"
    /\ operational_parameters.efficiency = 92500
    /\ call.result.parameters.efficiency = 100000
    /\ call.result.success

(* C18: get_simulation_history(N) returns the last min(N, length) entries  *)
(* of the history in the order they were appended, for every N >= 0 (none   *)
(* for N = 0); clear_history leaves the history empty.                      *)
C18_HistoryReturnsLastN ==
    /\ (call.op = "get_simulation_history") =>
           LET N == call.args[1]
               length == Len(simulation_history)
               count == IF N < length THEN N ELSE length
           IN  /\ call.status = "returned"
               /\ call.result
                      = [i \in 1..count |-> simulation_history[length - count + i]]
    /\ (call.op = "clear_history") => simulation_history = << >>

(* C19: the operational parameters held by a report that generate_report    *)
(* returned keep their values when update_state runs afterwards.            *)
C19_ReportKeepsItsValues ==
    [][(/\ call.op = "generate_report"
        /\ call.status = "returned"
        /\ call'.op = "update_state") =>
           LET held == call.result.operational_parameters
               before == IF held = TwinParametersRef
                         THEN operational_parameters ELSE held
               after == IF held = TwinParametersRef
                        THEN operational_parameters' ELSE held
           IN  after = before]_vars

(* C20: a configuration without conveyor.maintenance_interval is rejected  *)
(* when the twin is constructed, so that on a constructed twin              *)
(* predict_maintenance never raises for a missing configuration field.      *)
C20_NoMissingConfigAtRunTime ==
    (call.op = "predict_maintenance") =>
        ~(call.status = "raised" /\ call.error = "KeyError")

(* C21: operating_mode is NORMAL in the initial state and in every state    *)
(* reached by updates (also ones that raise HIGH alerts), maintenance       *)
(* predictions, analytics calls and simulations.                            *)
C21_ModeStaysNormal == operating_mode = "NORMAL"

C21_Witness ==
    /\ \E i \in 1..Len(alerts) : alerts[i].severity = "HIGH"
    /\ Len(simulation_history) = 1
    /\ call.op = "predict_maintenance"
    /\ call.result.urgency = "HIGH"
    /\ operating_mode = "NORMAL"

(* C22: a calculate_oee that runs while update_state runs in another thread *)
(* takes its availability, performance and quality from one update cycle,   *)
(* and the state a simulation copies as its baseline holds the efficiency   *)
(* of its own readings, never the efficiency of the cycle before.           *)
C22_ReadersSeeOneCycle ==
    /\ (reader.pc = "done") =>
           \A i, j \in 1..Len(reader.cycles) : reader.cycles[i] = reader.cycles[j]
    /\ (call.op = "simulate_what_if_scenario" /\ call.status = "returned") =>
           call.result.parameters.efficiency
               = CalculateEfficiency(call.result.parameters)

C24_FailureDeltas ==
    (call.op = "simulate_component_failure") =>
        LET base == operational_parameters
            component == call.args[1]
            s == call.args[2]
            AtLeast0(x) == IF x < 0 THEN 0 ELSE x
            expected ==
                CASE component = "motor" ->
                        [base EXCEPT
                            !.motor_temperature = @ + 20 * s,
                            !.motor_current = @ + 5 * s,
                            !.efficiency = AtLeast0(@ - 25 * s)]
                  [] component = "bearing" ->
                        [base EXCEPT
                            !.vibration_level = AtLeast0(@ + 3 * s),
                            !.motor_temperature = @ + 10 * s,
                            !.efficiency = AtLeast0(@ - 15 * s)]
                  [] component = "sensor" ->
                        [base EXCEPT !.efficiency = AtLeast0(@ - 10 * s)]
                  [] component = "controller" ->
                        [base EXCEPT
                            !.current_speed = (@ * (10000 - 3 * s)) \div 10000,
                            !.efficiency = AtLeast0(@ - 20 * s)]
        IN  /\ call.status = "returned"
            /\ call.result.parameters = expected

(* C25: simulate_what_if_scenario first applies the overrides of            *)
(* config.changes that name a field of the twin's state and ignores the     *)
(* others, then degrades the overridden values: efficiency * (1 - 0.01 h),  *)
(* vibration * (1 + 0.005 h), temperature * (1 + 0.001 h), without          *)
(* clamping; without changes and with duration_hours = 0 the projection is  *)
(* the twin's state.                                                        *)
C25_OverridesThenDegradation ==
    (call.op = "simulate_what_if_scenario") =>
        LET scenario == call.args[1]
            base == operational_parameters
            named == IF "changes" \in DOMAIN scenario
                     THEN DOMAIN scenario.changes ELSE {}
            hours == IF "duration_hours" \in DOMAIN scenario
                     THEN scenario.duration_hours ELSE 1
            Overridden(k) == IF k \in named THEN scenario.changes[k] ELSE base[k]
            projected == call.result.parameters
        IN  /\ call.status = "returned"
            /\ DOMAIN projected = DOMAIN base
            /\ projected.efficiency * 100
                   = Overridden("efficiency") * (100 - hours)
            /\ projected.vibration_level * 1000
                   = Overridden("vibration_level") * (1000 + 5 * hours)
            /\ projected.motor_temperature * 1000
                   = Overridden("motor_temperature") * (1000 + hours)
            /\ \A k \in DOMAIN base \ {"efficiency", "vibration_level",
                                         "motor_temperature"} :
                   projected[k] = Overridden(k)
            /\ (named = {} /\ hours = 0) => projected = base

C25_Witness ==
    /\ call.op = "simulate_what_if_scenario"
    /\ call.args[1].name = "override and run"
    /\ operational_parameters.motor_temperature = 130000
    /\ operational_parameters.vibration_level = 8000
    /\ call.result.parameters.motor_temperature = 80800
    /\ call.result.parameters.efficiency = 81000
    /\ call.result.parameters.vibration_level = 8400

(* C26: update_state sets current_speed, motor_temperature, vibration_level *)
(* and motor_current from the snapshot, 0 for a reading the snapshot lacks  *)
(* (the previous value is not kept); the state and the alerts are those of  *)
(* the snapshot that measured 0 for every missing reading.                  *)
C26_MissingReadingIsZero ==
    [][(call'.op = "update_state") =>
          LET snapshot == call'.args
              Reading(k) == IF k \in DOMAIN snapshot THEN snapshot[k] ELSE 0
              measured_zero ==
                  [timestamp |-> snapshot.timestamp,
                   conveyor_speed |-> Reading("conveyor_speed"),
                   motor_temperature |-> Reading("motor_temperature"),
                   vibration_level |-> Reading("vibration_level"),
                   motor_current |-> Reading("motor_current")]
          IN  /\ operational_parameters'.current_speed = Reading("conveyor_speed")
              /\ operational_parameters'.motor_temperature
                     = Reading("motor_temperature")
              /\ operational_parameters'.vibration_level
                     = Reading("vibration_level")
              /\ operational_parameters'.motor_current = Reading("motor_current")
              /\ operational_parameters'
                     = UpdatedParameters(operational_parameters, measured_zero)
              /\ alerts' = UpdatedAlerts(operational_parameters, alerts,
                                         measured_zero, now')]_vars

C26_Witness ==
    /\ now = 2
    /\ call.op = "update_state"
    /\ DOMAIN sensor_data = {"timestamp", "conveyor_speed"}
    /\ operational_parameters.current_speed = 20000
    /\ operational_parameters.motor_temperature = 0
    /\ operational_parameters.vibration_level = 0
    /\ operational_parameters.motor_current = 0
    /\ operational_parameters.efficiency = 100000
    /\ operational_parameters.items_processed = 4
    /\ alerts = << >>

(* the place of an alert type in the order of _check_anomalies, 0 for none *)
AlertRank(type) ==
    CASE type = "CRITICAL_TEMPERATURE" -> 1
      [] type = "HIGH_VIBRATION" -> 2
      [] type = "LOW_EFFICIENCY" -> 3
      [] OTHER -> 0

(* C27: the alert list holds at most 3 alerts, at most one of each of       *)
(* CRITICAL_TEMPERATURE, HIGH_VIBRATION, LOW_EFFICIENCY, in that order; so  *)
(* generate_report never recommends the diagnostics of more than 5 alerts   *)
(* and the availability of calculate_oee is at least (1440 - 15) / 1440.    *)
C27_AtMostThreeAlerts ==
    /\ Len(alerts) <= 3
    /\ \A i \in 1..Len(alerts) : AlertRank(alerts[i].type) # 0
    /\ \A i, j \in 1..Len(alerts) :
           i < j => AlertRank(alerts[i].type) < AlertRank(alerts[j].type)
    /\ (call.op = "generate_report" /\ call.status = "returned") =>
           \A i \in 1..Len(call.result.recommendations) :
               call.result.recommendations[i] # "system diagnostics required"
    /\ (call.op = "calculate_oee" /\ call.status = "returned") =>
           call.result.availability.num * 1440
               >= 142500 * call.result.availability.den

C27_Witness ==
    /\ Len(alerts) = 3
    /\ call.op = "calculate_oee"
    /\ call.status = "returned"
    /\ call.result.availability.num * 1440
           = 142500 * call.result.availability.den

(* C28: defects_count keeps its initial 0 under every operation, so the     *)
(* quality that calculate_oee returns is 100 percent, with items_processed  *)
(* 0 and with items_processed positive.                                     *)
C28_QualityAlwaysFull ==
    /\ operational_parameters.defects_count = 0
    /\ CalculateQuality(operational_parameters).num
           = CalculateQuality(operational_parameters).den
    /\ (call.op = "calculate_oee" /\ call.status = "returned") =>
           call.result.quality.num = 100 * call.result.quality.den
    /\ (call.op = "generate_report" /\ call.status = "returned") =>
           call.result.oee_metrics.quality.num
               = 100 * call.result.oee_metrics.quality.den

C28_Witness ==
    /\ call.op = "calculate_oee"
    /\ call.status = "returned"
    /\ operational_parameters.items_processed > 0
    /\ call.result.quality = Ratio(100 * operational_parameters.items_processed,
                                   operational_parameters.items_processed)

(* C29: in a _main_loop cycle in which every register read fails, the       *)
(* snapshot still carries a timestamp and is applied: update_state runs,    *)
(* speed, temperature, vibration and current become 0, efficiency becomes   *)
(* 100, the alert list becomes empty, and uptime advances by one increment. *)
C29_EmptyReadIsApplied ==
    [][(/\ now' = now + 1
        /\ call'.op = "_main_loop"
        /\ \A name \in DOMAIN MODBUS_REGISTERS : call'.args[name].error) =>
          /\ DOMAIN sensor_data' = {"timestamp"}
          /\ Len(cycle_log') >= 1
          /\ cycle_log'[1].op = "update_state"
          /\ operational_parameters'.current_speed = 0
          /\ operational_parameters'.motor_temperature = 0
          /\ operational_parameters'.vibration_level = 0
          /\ operational_parameters'.motor_current = 0
          /\ operational_parameters'.efficiency = 100000
          /\ alerts' = << >>
          /\ operational_parameters'.uptime_hours
                 = operational_parameters.uptime_hours + UptimeIncrement]_vars

C29_Witness ==
    /\ call.op = "_main_loop"
    /\ \A name \in DOMAIN MODBUS_REGISTERS : call.args[name].error
    /\ now = 2
    /\ DOMAIN sensor_data = {"timestamp"}
    /\ cycle_log[1].op = "update_state"
    /\ operational_parameters.current_speed = 0
    /\ operational_parameters.efficiency = 100000
    /\ operational_parameters.items_processed > 0
    /\ operational_parameters.uptime_hours = 2 * UptimeIncrement
    /\ alerts = << >>

(* the calls of a cycle that were given an alert *)
IsAlertCall(called) == called.op \in {"publish_alert", "save_alert"}

(* C30: in every _main_loop cycle that obtains a snapshot the twin is       *)
(* updated before anything is saved or published, and every alert active    *)
(* after the update is handed to publish_alert and to save_alert in that    *)
(* cycle, in the order of the alert list, also when save_sensor_data fails. *)
C30_AlertsAlwaysHandedOn ==
    (call.op = "_main_loop") =>
        LET handed == SelectSeq(cycle_log, IsAlertCall)
        IN  /\ Len(cycle_log) >= 1
            /\ cycle_log[1].op = "update_state"
            /\ \A i \in 2..Len(cycle_log) : cycle_log[i].op # "update_state"
            /\ Len(handed) = 2 * Len(alerts)
            /\ \A i \in 1..Len(alerts) :
                   /\ handed[2 * i - 1].op = "publish_alert"
                   /\ handed[2 * i - 1].alert = alerts[i].type
                   /\ handed[2 * i].op = "save_alert"
                   /\ handed[2 * i].alert = alerts[i].type

====
